---- MODULE Spec2Model ----
(***************************************************************************)
(* A model of the runnable snippets of the-modern-web-stack:               *)
(*                                                                         *)
(*   - react-and-jsx/script.jsx: the LikeButton / ManyButtons page, from   *)
(*     the parsing of index.html to the clicks on the mounted buttons;     *)
(*   - webpack/loaders-optimizations/src/script.js: the page whose button  *)
(*     imports ./lazy-module dynamically;                                  *)
(*   - webpack/loaders-optimizations/webpack.config.js: the build that     *)
(*     turns the entries into bundles and HTML pages, and the way webpack  *)
(*     builds one module under the rules, loaders, presets and             *)
(*     optimization options of the configurations of the tutorial;         *)
(*   - the class, local-variable and useState versions of LikeButton that  *)
(*     the react-and-jsx tutorial goes through;                            *)
(*   - linters: ESLint run with the rule severities of .eslintrc.json.     *)
(***************************************************************************)
EXTENDS Integers, Sequences, FiniteSets

\* The react-and-jsx page.
VARIABLES
  parsePos,      \* number of index.html nodes the HTML parser has consumed
  libs,          \* library scripts that have been executed
  scriptFetch,   \* download of script.js: "idle", "fetching", "ready"
  document,      \* ids of the elements that exist in the document
  pc,            \* script.js: 0 not started, k about to run statement k, Len+1 over
  threw,         \* script.js ended with an uncaught exception
  domContainer,  \* const domContainer: Undefined, Null or an element id
  qsCalls,       \* calls of document.querySelector made so far
  renderCalls,   \* calls of ReactDOM.render made so far
  hook,          \* React's memoized useState value of each state cell
  queue,         \* updates enqueued by setLiked and not yet rendered
  liked,         \* value of the local `liked` in the last render of each instance
  dom,           \* element each LikeButton instance currently shows
  renders,       \* number of times the component function ran for each instance
  clicked,       \* instances whose button has received a click
  htmlPage       \* the nodes of the HTML page the browser loads, in order

reactVars == <<parsePos, libs, scriptFetch, document, pc, threw, domContainer,
               qsCalls, renderCalls, hook, queue, liked, dom, renders, clicked,
               htmlPage>>

\* The build of webpack/loaders-optimizations.
VARIABLES
  bPhase,   \* "make" (modules are built), "emit" (files are written), "done"
  built,    \* modules that have been built
  todo,     \* modules that are known and not built yet
  emitted,  \* files written to dist
  html      \* for each HTML page written, the src of its script tags in order

buildVars == <<bPhase, built, todo, emitted, html>>

\* dist/index.html of webpack/loaders-optimizations in the browser.
VARIABLES
  lzParsed,     \* the browser has parsed dist/index.html
  lzFetched,    \* script files of the page that have been downloaded
  lzExecuted,   \* number of deferred scripts of the page that have been run
  lzLoaded,     \* the entry module src/script.js has run
  body,         \* elements appended to document.body, in order
  imgState,     \* the image of imageComponent: "none", "loading", "loaded"
  console,      \* the lines console.log has written, in order
  lzClicks,     \* clicks handled on the "Click me!" button (click k has id k)
  chunk,        \* the chunk of ./lazy-module: "absent", "loading", "installed"
  waiters,      \* ids of the clicks whose import awaits the chunk
  moduleCache,  \* modules that have been evaluated
  microtasks,   \* the promise jobs that are queued, in order
  imports       \* imports[k]: the promise of the import() of click k:
                \* "pending", "fulfilled" or "rejected"

lazyVars == <<lzParsed, lzFetched, lzExecuted, lzLoaded, body, imgState, console,
              lzClicks, chunk, waiters, moduleCache, microtasks, imports>>

\* webpack building one module under one configuration.
VARIABLES
  wpStage,         \* "idle", "load", "asset", "parsed", "bundled", "emitted", "failed"
  wpConfig,        \* the configuration webpack runs with
  wpFile,          \* the path of the module
  wpTypeError,     \* the module has a type error
  wpOptimization,  \* optimization.usedExports and optimization.minimize
  wpCode,          \* the kinds of syntax the code of the module contains
  wpChain,         \* the loaders still to run, first to run first
  wpLoaders,       \* the loaders that have run, in order
  wpPresets,       \* the Babel presets that have run, each with its input
  wpReport,        \* the errors webpack has reported
  wpExports        \* the exports of the module that are in the bundle

compileVars == <<wpStage, wpConfig, wpFile, wpTypeError, wpOptimization, wpCode,
                 wpChain, wpLoaders, wpPresets, wpReport, wpExports>>

\* The versions of LikeButton side by side.
VARIABLES
  vMounted,    \* ReactDOM.render has mounted the three versions
  vClicks,     \* clicks the user has made
  clsState,    \* class version: this.state of each instance
  clsDom,      \* class version: element each instance shows
  fnMemo,      \* useState version: memoized useState value of each instance
  fnDom,       \* useState version: element each instance shows
  locLiked,    \* local-variable version: `liked` of the last run of each instance
  locDom,      \* local-variable version: element each instance shows
  locConsole   \* local-variable version: the lines console.log has written

variantVars == <<vMounted, vClicks, clsState, clsDom, fnMemo, fnDom, locLiked,
                 locDom, locConsole>>

\* ESLint run on one file.
VARIABLES
  lintStage,       \* "idle", "linting", "done"
  lintConfig,      \* which "rules" of .eslintrc.json the run uses
  lintViolations,  \* the rules the file violates
  lintChecked,     \* number of rules of RuleIds that have been checked
  lintMessages,    \* the messages reported, in order
  lintExit         \* the exit code of the run once it is done

lintVars == <<lintStage, lintConfig, lintViolations, lintChecked, lintMessages,
              lintExit>>

vars == <<reactVars, buildVars, lazyVars, compileVars, variantVars, lintVars>>

(***************************************************************************)
(* Part 1: react-and-jsx                                                   *)
(***************************************************************************)

\* [...new Array(500)] is modelled with NumButtons elements.
NumButtons == 3

\* Renders of one instance that are explored.
MaxRenders == 3

\* The indexes Array.map passes to the callback.
Buttons == 0 .. (NumButtons - 1)

Undefined == "undefined"
Null == "null"

\* A state cell before the first render, and a local before it is bound; a
\* value v that is present is held as <<v>>.
NoHook == <<>>
NotRendered == <<>>

\* The nodes of index.html in document order.
IndexHtml ==
  << [tag |-> "script", src |-> "react.development.js",     defer |-> FALSE, id |-> ""],
     [tag |-> "script", src |-> "react-dom.development.js", defer |-> FALSE, id |-> ""],
     [tag |-> "script", src |-> "script.js",                defer |-> TRUE,  id |-> ""],
     [tag |-> "div",    src |-> "",                         defer |-> FALSE, id |-> "app"] >>

\* index.html with the script tag of script.js written without defer.
IndexHtmlNoDefer == [IndexHtml EXCEPT ![3].defer = FALSE]

\* index.html whose div has another id than the one script.jsx asks for.
IndexHtmlNoApp == [IndexHtml EXCEPT ![4].id = "root"]

\* Pages that load script.jsx.
HtmlPages == {IndexHtml, IndexHtmlNoDefer, IndexHtmlNoApp}

\* <script src="script.js"> written without the defer attribute.
DeferredNever(node) == FALSE

\* Whether the browser defers a script node until the document is parsed.
Deferred(node) == node.defer

\* script.js with the render call placed before the query.
ScriptStatementsSwapped == <<"render", "querySelector">>

\* The top-level statements of script.jsx that act on the page, in order.
ScriptStatements == <<"querySelector", "render">>

\* document.querySelector("#id"): the element, or null when there is none.
querySelector(doc, id) == IF id \in doc THEN id ELSE Null

\* A useState that does not keep the value between renders: with no update
\* pending it starts again from the initial value.
useStateForgetful(memo, pending, initial) ==
  IF pending # <<>> THEN pending[Len(pending)] ELSE initial

\* React.useState(initial) as seen by one render: the initial value on mount,
\* afterwards the memoized value with the pending updates applied.
useState(memo, pending, initial) ==
  IF pending # <<>> THEN pending[Len(pending)]
  ELSE IF memo = NoHook THEN initial
  ELSE memo[1]

\* A component body that ignores its flag (the button is always returned).
LikeButtonAlwaysButton(isLiked) == "button"

\* The element LikeButton returns for a value of `liked`.
LikeButton(isLiked) == IF isLiked THEN "span" ELSE "button"

\* One state cell for all instances.
StateCellShared(index) == 0

\* The state cell of the LikeButton rendered for an index: every element
\* <LikeButton key={index} /> is an instance of its own.
StateCell(index) == index

Cells == { StateCell(i) : i \in Buttons }

\* An onClick that only assigns and tells React nothing.
setLikedNoSchedule(q, cell, value) == q

\* setLiked(value): enqueue the update on the instance's cell.
setLiked(q, cell, value) == [q EXCEPT ![cell] = Append(@, value)]

\* The instances React has to render again for the updates in q.
Dirty(q) == { i \in Buttons : q[StateCell(i)] # <<>> }

\* The value `liked` takes in a render of instance i with the updates in q.
RenderValue(q, i) == useState(hook[StateCell(i)], q[StateCell(i)], FALSE)

\* React renders the instances in `which` with the updates in q, commits the
\* result and empties the queues it has consumed.
RenderInstances(q, which) ==
  /\ hook' = [c \in Cells |->
                IF \E i \in which : StateCell(i) = c
                THEN <<useState(hook[c], q[c], FALSE)>>
                ELSE hook[c]]
  /\ liked' = [i \in Buttons |->
                IF i \in which THEN <<RenderValue(q, i)>> ELSE liked[i]]
  /\ dom' = [i \in Buttons |->
                IF i \in which THEN LikeButton(RenderValue(q, i)) ELSE dom[i]]
  /\ queue' = [c \in Cells |->
                IF \E i \in which : StateCell(i) = c THEN <<>> ELSE q[c]]
  /\ renders' = [i \in Buttons |->
                IF i \in which THEN renders[i] + 1 ELSE renders[i]]

\* A ReactDOM.render that takes anything for a container.
isValidContainerAny(node) == TRUE

\* ReactDOM.render accepts a DOM element as its container, not null or
\* undefined.
isValidContainer(node) == node \notin {Null, Undefined}

InitReactState ==
  /\ parsePos = 0
  /\ libs = {}
  /\ scriptFetch = "idle"
  /\ document = {}
  /\ pc = 0
  /\ threw = FALSE
  /\ domContainer = Undefined
  /\ qsCalls = 0
  /\ renderCalls = 0
  /\ hook = [c \in Cells |-> NoHook]
  /\ queue = [c \in Cells |-> <<>>]
  /\ liked = [i \in Buttons |-> NotRendered]
  /\ dom = [i \in Buttons |-> "none"]
  /\ renders = [i \in Buttons |-> 0]
  /\ clicked = {}

\* The browser is about to load index.html.
InitReact == htmlPage = IndexHtml /\ InitReactState

\* script.js is being executed (a classic script blocks the parser meanwhile).
ScriptRunning == pc \in 1 .. Len(ScriptStatements)

\* script.js has run to its end without an exception.
ScriptDone == pc = Len(ScriptStatements) + 1 /\ ~threw

\* The HTML parser consumes the next node of index.html.
ParseNode ==
  /\ parsePos < Len(htmlPage)
  /\ ~ScriptRunning
  /\ LET node == htmlPage[parsePos + 1] IN
       /\ parsePos' = parsePos + 1
       /\ IF node.tag = "div"
          THEN /\ document' = document \cup {node.id}
               /\ UNCHANGED <<libs, scriptFetch, pc>>
          ELSE IF node.src # "script.js"
          THEN /\ libs' = libs \cup {node.src}
               /\ UNCHANGED <<document, scriptFetch, pc>>
          ELSE IF Deferred(node)
          THEN /\ scriptFetch' = "fetching"
               /\ UNCHANGED <<document, libs, pc>>
          ELSE /\ scriptFetch' = "ready"
               /\ pc' = 1
               /\ UNCHANGED <<document, libs>>
  /\ UNCHANGED <<threw, domContainer, qsCalls, renderCalls, hook, queue, liked,
                 dom, renders, clicked, htmlPage>>
  /\ UNCHANGED <<buildVars, lazyVars, compileVars, variantVars, lintVars>>

\* The download of the deferred script.js completes.
FetchComplete ==
  /\ scriptFetch = "fetching"
  /\ scriptFetch' = "ready"
  /\ UNCHANGED <<parsePos, libs, document, pc, threw, domContainer, qsCalls,
                 renderCalls, hook, queue, liked, dom, renders, clicked, htmlPage>>
  /\ UNCHANGED <<buildVars, lazyVars, compileVars, variantVars, lintVars>>

\* The deferred script.js starts once the document is parsed.
RunDeferred ==
  /\ parsePos = Len(htmlPage)
  /\ scriptFetch = "ready"
  /\ pc = 0
  /\ pc' = 1
  /\ UNCHANGED <<parsePos, libs, scriptFetch, document, threw, domContainer,
                 qsCalls, renderCalls, hook, queue, liked, dom, renders, clicked, htmlPage>>
  /\ UNCHANGED <<buildVars, lazyVars, compileVars, variantVars, lintVars>>

\* const domContainer = document.querySelector("#app");
QueryContainer ==
  /\ ScriptRunning
  /\ ScriptStatements[pc] = "querySelector"
  /\ domContainer' = querySelector(document, "app")
  /\ qsCalls' = qsCalls + 1
  /\ pc' = pc + 1
  /\ UNCHANGED <<parsePos, libs, scriptFetch, document, threw, renderCalls,
                 hook, queue, liked, dom, renders, clicked, htmlPage>>
  /\ UNCHANGED <<buildVars, lazyVars, compileVars, variantVars, lintVars>>

\* ReactDOM.render(<ManyButtons />, domContainer): mounts one LikeButton per
\* index; with a container that is no DOM element, or without the React
\* globals, it throws and mounts nothing.
RenderRoot ==
  /\ ScriptRunning
  /\ ScriptStatements[pc] = "render"
  /\ renderCalls' = renderCalls + 1
  /\ IF \/ ~isValidContainer(domContainer)
        \/ ~({"react.development.js", "react-dom.development.js"} \subseteq libs)
     THEN /\ pc' = Len(ScriptStatements) + 1
          /\ threw' = TRUE
          /\ UNCHANGED <<hook, queue, liked, dom, renders>>
     ELSE /\ pc' = pc + 1
          /\ threw' = FALSE
          /\ RenderInstances(queue, Buttons)
  /\ UNCHANGED <<parsePos, libs, scriptFetch, document, domContainer, qsCalls,
                 clicked, htmlPage>>
  /\ UNCHANGED <<buildVars, lazyVars, compileVars, variantVars, lintVars>>

\* The user clicks the button of instance i: onClick calls setLiked(true) and
\* React renders the updated instances before the event is over.
Click(i) ==
  /\ ScriptDone
  /\ dom[i] = "button"
  /\ renders[i] < MaxRenders
  /\ clicked' = clicked \cup {i}
  /\ LET q == setLiked(queue, StateCell(i), TRUE) IN
       RenderInstances(q, Dirty(q))
  /\ UNCHANGED <<parsePos, libs, scriptFetch, document, pc, threw, domContainer,
                 qsCalls, renderCalls, htmlPage>>
  /\ UNCHANGED <<buildVars, lazyVars, compileVars, variantVars, lintVars>>

\* React calls the component function of a mounted instance again without an
\* update of its own.
Rerender(i) ==
  /\ ScriptDone
  /\ dom[i] # "none"
  /\ renders[i] < MaxRenders
  /\ RenderInstances(queue, {i})
  /\ UNCHANGED <<parsePos, libs, scriptFetch, document, pc, threw, domContainer,
                 qsCalls, renderCalls, clicked, htmlPage>>
  /\ UNCHANGED <<buildVars, lazyVars, compileVars, variantVars, lintVars>>

NextReact ==
  \/ ParseNode
  \/ FetchComplete
  \/ RunDeferred
  \/ QueryContainer
  \/ RenderRoot
  \/ \E i \in Buttons : Click(i)
  \/ \E i \in Buttons : Rerender(i)

TypeOKReact ==
  /\ parsePos \in 0 .. Len(IndexHtml)
  /\ scriptFetch \in {"idle", "fetching", "ready"}
  /\ pc \in 0 .. (Len(ScriptStatements) + 1)
  /\ threw \in BOOLEAN
  /\ domContainer \in {Undefined, Null, "app"}
  /\ \A i \in Buttons : dom[i] \in {"none", "button", "span"}
  /\ \A i \in Buttons : renders[i] \in 0 .. MaxRenders
  /\ clicked \subseteq Buttons

(***************************************************************************)
(* Part 2: the build of webpack/loaders-optimizations                      *)
(***************************************************************************)

ScriptJs == "./src/script.js"
Page2Js == "./src/page2.js"
LodashJoin == "lodash/join"
StylesCss == "./styles.css"
MushroomJpg == "./assets/ck-yeo-ZyEnQoFp8RQ-unsplash.jpg"
TreeShake == "./tree-shake"
LazyModule == "./lazy-module"

\* Range of a sequence.
Range(seq) == { seq[k] : k \in 1 .. Len(seq) }

\* script.js with ./lazy-module imported by an import statement at its top.
StaticImportsEager(m) ==
  IF m = ScriptJs
  THEN <<StylesCss, MushroomJpg, LodashJoin, TreeShake, LazyModule>>
  ELSE IF m = Page2Js THEN <<LodashJoin>>
  ELSE <<>>

\* The modules the import statements of a module name, in order.
StaticImports(m) ==
  IF m = ScriptJs THEN <<StylesCss, MushroomJpg, LodashJoin, TreeShake>>
  ELSE IF m = Page2Js THEN <<LodashJoin>>
  ELSE <<>>

\* The modules a module names in import() expressions.
DynamicImports(m) == IF m = ScriptJs THEN <<LazyModule>> ELSE <<>>

\* The entries without their dependOn option.
EntryNoDependOn ==
  << [name |-> "script", import |-> ScriptJs,   dependOn |-> <<>>],
     [name |-> "page2",  import |-> Page2Js,    dependOn |-> <<>>],
     [name |-> "shared", import |-> LodashJoin, dependOn |-> <<>>] >>

\* module.exports.entry
Entry ==
  << [name |-> "script", import |-> ScriptJs,   dependOn |-> <<"shared">>],
     [name |-> "page2",  import |-> Page2Js,    dependOn |-> <<"shared">>],
     [name |-> "shared", import |-> LodashJoin, dependOn |-> <<>>] >>

EntryNames == { Entry[k].name : k \in 1 .. Len(Entry) }

EntryOf(name) == CHOOSE e \in Range(Entry) : e.name = name

\* An output.filename that ignores the name of the entry.
OutputFilenameMain(name) == "main.js"

\* output.filename: "[name].js"
OutputFilename(name) == name \o ".js"

\* Both pages given the chunks of index.html.
HtmlPluginsSameChunks ==
  << [filename |-> "index.html",       chunks |-> <<"script", "shared">>],
     [filename |-> "page2/index.html", chunks |-> <<"script", "shared">>] >>

\* The HtmlWebpackPlugin instances of module.exports.plugins.
HtmlPlugins ==
  << [filename |-> "index.html",       chunks |-> <<"script", "shared">>],
     [filename |-> "page2/index.html", chunks |-> <<"page2", "shared">>] >>

Pages == { HtmlPlugins[k].filename : k \in 1 .. Len(HtmlPlugins) }

PluginOf(page) == CHOOSE pl \in Range(HtmlPlugins) : pl.filename = page

\* The file of the chunk webpack creates for a module reached by import():
\* output.chunkFilename is not set, so the name is made from the chunk id,
\* which the configuration does not fix.
ChunkFilename(m) == "[id:" \o m \o "].js"

\* The file an asset/resource module is written to (a content hash and the
\* extension of the module).
AssetFilename(m) == "[hash:" \o m \o "]"

\* Modules the second rule of module.rules turns into files of their own.
IsAssetResource(m) == m = MushroomJpg

\* The modules reachable from a set of modules by import statements.
RECURSIVE StaticClosure(_)
StaticClosure(ms) ==
  LET more == ms \cup UNION { Range(StaticImports(m)) : m \in ms } IN
    IF more = ms THEN ms ELSE StaticClosure(more)

\* The modules reachable from the entries by import statements and import().
RECURSIVE AllModules(_)
AllModules(ms) ==
  LET more == ms \cup UNION { Range(StaticImports(m)) \cup Range(DynamicImports(m))
                               : m \in ms } IN
    IF more = ms THEN ms ELSE AllModules(more)

EntryModules == { Entry[k].import : k \in 1 .. Len(Entry) }

\* The modules in the bundle of an entry: those its import reaches by import
\* statements, without the modules of the entries named by its dependOn
\* (these are taken from the bundles of those entries when the page runs).
ChunkModules(name) ==
  StaticClosure({EntryOf(name).import})
    \ UNION { StaticClosure({EntryOf(d).import}) : d \in Range(EntryOf(name).dependOn) }

\* The modules that get a chunk of their own because an import() names them.
AsyncRoots ==
  UNION { Range(DynamicImports(m)) : m \in AllModules(EntryModules) }

\* The <script defer src=...> tags HtmlWebpackPlugin writes into a page: one
\* for each chunk of its chunks option that is an entry, in that order (each
\* named by its file in dist).
RECURSIVE ScriptTagsOf(_)
ScriptTagsOf(chunks) ==
  IF chunks = <<>> THEN <<>>
  ELSE (IF Head(chunks) \in EntryNames
        THEN <<OutputFilename(Head(chunks))>> ELSE <<>>)
       \o ScriptTagsOf(Tail(chunks))

ScriptTags(page) == ScriptTagsOf(PluginOf(page).chunks)

\* The files the build has to write.
EntryBundles == { OutputFilename(n) : n \in EntryNames }
AsyncChunks == { ChunkFilename(m) : m \in AsyncRoots }
ResourceFiles ==
  { AssetFilename(m) : m \in { x \in AllModules(EntryModules) : IsAssetResource(x) } }
OutputFiles == EntryBundles \cup AsyncChunks \cup ResourceFiles \cup Pages

NoPage == <<"not written">>

InitBuild ==
  /\ bPhase = "make"
  /\ built = {}
  /\ todo = EntryModules
  /\ emitted = {}
  /\ html = [pg \in Pages |-> NoPage]

\* webpack builds a module it knows of and learns of the modules it imports.
BuildModule(m) ==
  /\ bPhase = "make"
  /\ m \in todo
  /\ built' = built \cup {m}
  /\ todo' = (todo \cup Range(StaticImports(m)) \cup Range(DynamicImports(m)))
               \ (built \cup {m})
  /\ UNCHANGED <<bPhase, emitted, html>>
  /\ UNCHANGED <<reactVars, lazyVars, compileVars, variantVars, lintVars>>

\* All modules are built: the chunks are fixed and the writing starts.
Seal ==
  /\ bPhase = "make"
  /\ todo = {}
  /\ bPhase' = "emit"
  /\ UNCHANGED <<built, todo, emitted, html>>
  /\ UNCHANGED <<reactVars, lazyVars, compileVars, variantVars, lintVars>>

\* A bundle, a chunk or a resource file is written to dist.
EmitFile(f) ==
  /\ bPhase = "emit"
  /\ f \in (OutputFiles \ Pages) \ emitted
  /\ emitted' = emitted \cup {f}
  /\ UNCHANGED <<bPhase, built, todo, html>>
  /\ UNCHANGED <<reactVars, lazyVars, compileVars, variantVars, lintVars>>

\* HtmlWebpackPlugin writes a page from the template, with its script tags.
EmitHtml(pg) ==
  /\ bPhase = "emit"
  /\ pg \in Pages \ emitted
  /\ emitted' = emitted \cup {pg}
  /\ html' = [html EXCEPT ![pg] = ScriptTags(pg)]
  /\ UNCHANGED <<bPhase, built, todo>>
  /\ UNCHANGED <<reactVars, lazyVars, compileVars, variantVars, lintVars>>

\* Everything is written.
BuildDone ==
  /\ bPhase = "emit"
  /\ emitted = OutputFiles
  /\ bPhase' = "done"
  /\ UNCHANGED <<built, todo, emitted, html>>
  /\ UNCHANGED <<reactVars, lazyVars, compileVars, variantVars, lintVars>>

NextBuild ==
  \/ \E m \in AllModules(EntryModules) : BuildModule(m)
  \/ Seal
  \/ \E f \in OutputFiles : EmitFile(f)
  \/ \E pg \in Pages : EmitHtml(pg)
  \/ BuildDone

TypeOKBuild ==
  /\ bPhase \in {"make", "emit", "done"}
  /\ built \subseteq AllModules(EntryModules)
  /\ todo \subseteq AllModules(EntryModules)
  /\ emitted \subseteq OutputFiles

(***************************************************************************)
(* Part 3: dist/index.html of webpack/loaders-optimizations in the browser *)
(***************************************************************************)

\* Clicks on the "Click me!" button that are explored.
MaxClicks == 3

\* console.log("this code has been loaded"); at the top of lazy-module.js
LoadedLog == "this code has been loaded"

\* What the top level of a module writes to the console when it is evaluated.
ModuleLog(m) ==
  IF m = LazyModule THEN <<LoadedLog>>
  ELSE IF m = Page2Js THEN <<"loading page2.js">>
  ELSE <<>>

\* const getBigData = () => "big data";
getBigData == "big data"

\* The console lines of evaluating the modules of a sequence, in order.
RECURSIVE EvalLogs(_)
EvalLogs(ms) ==
  IF ms = <<>> THEN <<>> ELSE ModuleLog(Head(ms)) \o EvalLogs(Tail(ms))

\* Number of occurrences of x in a sequence.
Count(seq, x) == Cardinality({ k \in 1 .. Len(seq) : seq[k] = x })

\* Position of the first x in a sequence, Len + 1 when there is none.
FirstIndex(seq, x) ==
  IF x \in Range(seq)
  THEN CHOOSE k \in 1 .. Len(seq) :
         seq[k] = x /\ \A l \in 1 .. (k - 1) : seq[l] # x
  ELSE Len(seq) + 1

\* A module system that evaluates a module again at every import.
requireUncached(cache, m) == ModuleLog(m)

\* Evaluating module m through the module cache: its top level runs the
\* first time only.
require(cache, m) == IF m \in cache THEN <<>> ELSE ModuleLog(m)

\* An import() whose promise has no continuation.
thenNothing(id) == <<>>

\* import(...).then(callback): the job queued when the promise of click id is
\* fulfilled with the module.
then(id) == << [kind |-> "then", id |-> id] >>

\* A chunk loader that resumes the first waiting import only.
RequireJobsFirstOnly(ids) ==
  IF ids = <<>> THEN <<>> ELSE << [kind |-> "require", id |-> Head(ids)] >>

\* The jobs that resume the imports of the clicks `ids` once the chunk is there.
RECURSIVE RequireJobs(_)
RequireJobs(ids) ==
  IF ids = <<>> THEN <<>>
  ELSE << [kind |-> "require", id |-> Head(ids)] >> \o RequireJobs(Tail(ids))

\* The script tags of the page as the build wrote them.
PageScripts == IF html["index.html"] = NoPage THEN <<>> ELSE html["index.html"]

\* The files that must have run before the entry "script" starts: its own
\* bundle and the bundles of the entries it depends on.
StartupFiles(name) ==
  {OutputFilename(name)} \cup { OutputFilename(d) : d \in Range(EntryOf(name).dependOn) }

InitLazy ==
  /\ lzParsed = FALSE
  /\ lzFetched = {}
  /\ lzExecuted = 0
  /\ lzLoaded = FALSE
  /\ body = <<>>
  /\ imgState = "none"
  /\ console = <<>>
  /\ lzClicks = 0
  /\ chunk = "absent"
  /\ waiters = <<>>
  /\ moduleCache = {}
  /\ microtasks = <<>>
  /\ imports = <<>>

\* The browser opens the page that the build has written and parses it; the
\* downloads of its deferred scripts start.
OpenPage ==
  /\ bPhase = "done"
  /\ ~lzParsed
  /\ lzParsed' = TRUE
  /\ UNCHANGED <<lzFetched, lzExecuted, lzLoaded, body, imgState, console,
                 lzClicks, chunk, waiters, moduleCache, microtasks, imports>>
  /\ UNCHANGED <<reactVars, buildVars, compileVars, variantVars, lintVars>>

\* The download of a script of the page completes.
FetchScript(f) ==
  /\ lzParsed
  /\ f \in Range(PageScripts) \ lzFetched
  /\ lzFetched' = lzFetched \cup {f}
  /\ UNCHANGED <<lzParsed, lzExecuted, lzLoaded, body, imgState, console,
                 lzClicks, chunk, waiters, moduleCache, microtasks, imports>>
  /\ UNCHANGED <<reactVars, buildVars, compileVars, variantVars, lintVars>>

\* The next deferred script runs (in document order, once downloaded). When
\* the bundle of the entry and those it depends on have all run, the entry
\* module src/script.js runs: its imports are evaluated, funcA() logs, and the
\* three components are appended to the body.
ExecDeferred ==
  /\ lzParsed
  /\ lzExecuted < Len(PageScripts)
  /\ PageScripts[lzExecuted + 1] \in lzFetched
  /\ lzExecuted' = lzExecuted + 1
  /\ LET ran == { PageScripts[k] : k \in 1 .. (lzExecuted + 1) } IN
       IF ~lzLoaded /\ StartupFiles("script") \subseteq ran
       THEN /\ lzLoaded' = TRUE
            /\ moduleCache' = moduleCache \cup StaticClosure({ScriptJs})
            /\ console' = console \o EvalLogs(StaticImports(ScriptJs)) \o <<"funcA">>
            /\ body' = body \o <<"div", "img", "button">>
            /\ imgState' = "loading"
            /\ chunk' = IF LazyModule \in StaticClosure({ScriptJs})
                        THEN "installed" ELSE chunk
       ELSE UNCHANGED <<lzLoaded, moduleCache, console, body, imgState, chunk>>
  /\ UNCHANGED <<lzParsed, lzFetched, lzClicks, waiters, microtasks, imports>>
  /\ UNCHANGED <<reactVars, buildVars, compileVars, variantVars, lintVars>>

\* The image file assigned to element.src has been downloaded.
ImageLoaded ==
  /\ imgState = "loading"
  /\ imgState' = "loaded"
  /\ UNCHANGED <<lzParsed, lzFetched, lzExecuted, lzLoaded, body, console,
                 lzClicks, chunk, waiters, moduleCache, microtasks, imports>>
  /\ UNCHANGED <<reactVars, buildVars, compileVars, variantVars, lintVars>>

\* The user clicks "Click me!": onclick calls import("./lazy-module"). The
\* chunk is requested unless it is loading or installed; the import resumes
\* in a promise job once the chunk is installed.
ClickMe ==
  /\ "button" \in Range(body)
  /\ microtasks = <<>>
  /\ lzClicks < MaxClicks
  /\ lzClicks' = lzClicks + 1
  /\ imports' = Append(imports, "pending")
  /\ IF chunk = "installed"
     THEN /\ microtasks' = RequireJobs(<<lzClicks + 1>>)
          /\ UNCHANGED <<chunk, waiters>>
     ELSE /\ chunk' = "loading"
          /\ waiters' = Append(waiters, lzClicks + 1)
          /\ UNCHANGED microtasks
  /\ UNCHANGED <<lzParsed, lzFetched, lzExecuted, lzLoaded, body, imgState,
                 console, moduleCache>>
  /\ UNCHANGED <<reactVars, buildVars, compileVars, variantVars, lintVars>>

\* The download of the script of the chunk succeeds and the script runs: the
\* chunk is installed and the imports waiting for it resume.
ChunkArrives ==
  /\ chunk = "loading"
  /\ microtasks = <<>>
  /\ chunk' = "installed"
  /\ microtasks' = RequireJobs(waiters)
  /\ waiters' = <<>>
  /\ UNCHANGED <<lzParsed, lzFetched, lzExecuted, lzLoaded, body, imgState,
                 console, lzClicks, moduleCache, imports>>
  /\ UNCHANGED <<reactVars, buildVars, compileVars, variantVars, lintVars>>

\* The download of the script of the chunk fails (network error, time-out,
\* missing file): the chunk is forgotten, so that a later import() requests
\* it again, and the promise of every import waiting for it is rejected. The
\* handler passes no rejection callback to then and has no catch: the
\* callback of then never runs for these clicks and nothing is logged.
ChunkFails ==
  /\ chunk = "loading"
  /\ microtasks = <<>>
  /\ chunk' = "absent"
  /\ waiters' = <<>>
  /\ imports' = [k \in 1 .. Len(imports) |->
                   IF k \in Range(waiters) THEN "rejected" ELSE imports[k]]
  /\ UNCHANGED <<lzParsed, lzFetched, lzExecuted, lzLoaded, body, imgState,
                 console, lzClicks, moduleCache, microtasks>>
  /\ UNCHANGED <<reactVars, buildVars, compileVars, variantVars, lintVars>>

\* The first queued promise job runs: either the import of a click obtains the
\* module (evaluating it if nobody has), or the callback passed to then calls
\* getBigData and logs the data.
RunMicrotask ==
  /\ microtasks # <<>>
  /\ LET job == Head(microtasks) IN
       IF job.kind = "require"
       THEN /\ console' = console \o require(moduleCache, LazyModule)
            /\ moduleCache' = moduleCache \cup {LazyModule}
            /\ imports' = [imports EXCEPT ![job.id] = "fulfilled"]
            /\ microtasks' = Tail(microtasks) \o then(job.id)
       ELSE /\ console' = Append(console, getBigData)
            /\ microtasks' = Tail(microtasks)
            /\ UNCHANGED <<moduleCache, imports>>
  /\ UNCHANGED <<lzParsed, lzFetched, lzExecuted, lzLoaded, body, imgState,
                 lzClicks, chunk, waiters>>
  /\ UNCHANGED <<reactVars, buildVars, compileVars, variantVars, lintVars>>

NextLazy ==
  \/ OpenPage
  \/ \E f \in EntryBundles : FetchScript(f)
  \/ ExecDeferred
  \/ ImageLoaded
  \/ ClickMe
  \/ ChunkArrives
  \/ ChunkFails
  \/ RunMicrotask

TypeOKLazy ==
  /\ lzLoaded \in BOOLEAN
  /\ lzClicks \in 0 .. MaxClicks
  /\ chunk \in {"absent", "loading", "installed"}
  /\ imgState \in {"none", "loading", "loaded"}
  /\ Range(waiters) \subseteq 1 .. MaxClicks
  /\ Len(imports) = lzClicks
  /\ Range(imports) \subseteq {"pending", "fulfilled", "rejected"}
  /\ \A k \in 1 .. Len(microtasks) :
       microtasks[k].kind \in {"require", "then"}

(***************************************************************************)
(* Part 4: how webpack builds one module under the configurations of       *)
(* webpack/loaders-optimizations (rules, loaders, presets, optimization)   *)
(***************************************************************************)

\* A path or a pattern is a sequence of characters.
\* String.prototype.toLowerCase on one character.
toLowerCase(c) ==
  LET upper == <<"A", "B", "C", "D", "E", "F", "G", "H", "I", "J", "K", "L", "M", "N", "O", "P", "Q", "R", "S", "T", "U", "V", "W", "X", "Y", "Z">>
      lower == <<"a", "b", "c", "d", "e", "f", "g", "h", "i", "j", "k", "l", "m", "n", "o", "p", "q", "r", "s", "t", "u", "v", "w", "x", "y", "z">>
  IN IF \E k \in 1 .. Len(upper) : upper[k] = c
     THEN lower[CHOOSE k \in 1 .. Len(upper) : upper[k] = c]
     ELSE c

\* A regular expression is a set of alternatives, each a sequence of atoms
\* (a character class that is optional when followed by ?), with its $ anchor
\* and its i flag.
Lit(str) == [k \in 1 .. Len(str) |-> [chars |-> {str[k]}, opt |-> FALSE]]
Opt(c) == << [chars |-> {c}, opt |-> TRUE] >>
Class(cs) == << [chars |-> cs, opt |-> FALSE] >>

\* Whether the atoms match str from position pos on (to its end if anchored).
RECURSIVE MatchFrom(_, _, _, _, _)
MatchFrom(atoms, str, pos, anchored, ignoreCase) ==
  IF atoms = <<>> THEN (anchored => pos = Len(str) + 1)
  ELSE LET a == Head(atoms)
           same(c) == IF ignoreCase
                      THEN toLowerCase(c) \in { toLowerCase(x) : x \in a.chars }
                      ELSE c \in a.chars
       IN \/ a.opt /\ MatchFrom(Tail(atoms), str, pos, anchored, ignoreCase)
          \/ /\ pos <= Len(str)
             /\ same(str[pos])
             /\ MatchFrom(Tail(atoms), str, pos + 1, anchored, ignoreCase)

\* An expression whose i flag is never honoured.
RegExpTestCaseSensitive(re, str) ==
  \E alt \in re.alts : \E pos \in 1 .. Len(str) + 1 :
    MatchFrom(alt, str, pos, re.anchored, FALSE)

\* RegExp.prototype.test: the expression matches somewhere in str.
RegExpTest(re, str) ==
  \E alt \in re.alts : \E pos \in 1 .. Len(str) + 1 :
    MatchFrom(alt, str, pos, re.anchored, re.ignoreCase)

\* /\.css$/i
CssTest ==
  [alts |-> { Lit(<<".", "c", "s", "s">>) }, anchored |-> TRUE, ignoreCase |-> TRUE]

\* /\.(png|svg|jpg|jpeg|gif)$/i
ImageTest ==
  [alts |-> { Lit(<<".">>) \o Lit(x) :
              x \in { <<"p", "n", "g">>, <<"s", "v", "g">>, <<"j", "p", "g">>, <<"j", "p", "e", "g">>, <<"g", "i", "f">> } },
   anchored |-> TRUE, ignoreCase |-> TRUE]

\* /\.m?jsx$/
JsxTest ==
  [alts |-> { Lit(<<".">>) \o Opt("m") \o Lit(<<"j", "s", "x">>) },
   anchored |-> TRUE, ignoreCase |-> FALSE]

\* /\.tsx?$/
TsTest ==
  [alts |-> { Lit(<<".", "t", "s">>) \o Opt("x") },
   anchored |-> TRUE, ignoreCase |-> FALSE]

\* The test of the React stage kept as it was: /\.m?jsx$/
JsxTsxTestJsxOnly ==
  [alts |-> { Lit(<<".">>) \o Opt("m") \o Lit(<<"j", "s", "x">>) },
   anchored |-> TRUE, ignoreCase |-> FALSE]

\* /\.m?[jt]sx$/
JsxTsxTest ==
  [alts |-> { Lit(<<".">>) \o Opt("m") \o Class({"j", "t"}) \o Lit(<<"s", "x">>) },
   anchored |-> TRUE, ignoreCase |-> FALSE]

\* /(node_modules|bower_components)/
ExcludeTest ==
  [alts |-> { Lit(<<"n", "o", "d", "e", "_", "m", "o", "d", "u", "l", "e", "s">>),
              Lit(<<"b", "o", "w", "e", "r", "_", "c", "o", "m", "p", "o", "n", "e", "n", "t", "s">>) },
   anchored |-> FALSE, ignoreCase |-> FALSE]

\* The files of the projects that the configurations are run on.
ScriptJsPath == <<".", "/", "s", "r", "c", "/", "s", "c", "r", "i", "p", "t", ".", "j", "s">>
ScriptJsxPath == <<".", "/", "s", "r", "c", "/", "s", "c", "r", "i", "p", "t", ".", "j", "s", "x">>
ScriptTsxPath == <<".", "/", "s", "r", "c", "/", "s", "c", "r", "i", "p", "t", ".", "t", "s", "x">>
StylesCssPath == <<".", "/", "s", "r", "c", "/", "s", "t", "y", "l", "e", "s", ".", "c", "s", "s">>
MushroomJpgPath ==
  <<".", "/", "s", "r", "c", "/", "a", "s", "s", "e", "t", "s", "/", "c", "k", "-", "y", "e", "o", "-", "Z", "y", "E", "n", "Q", "o", "F", "p", "8", "R", "Q", "-", "u", "n", "s", "p", "l", "a", "s", "h", ".", "j", "p", "g">>
TreeShakePath == <<".", "/", "s", "r", "c", "/", "t", "r", "e", "e", "-", "s", "h", "a", "k", "e", ".", "j", "s">>
LodashJoinPath == <<".", "/", "n", "o", "d", "e", "_", "m", "o", "d", "u", "l", "e", "s", "/", "l", "o", "d", "a", "s", "h", "/", "j", "o", "i", "n", ".", "j", "s">>

ProjectFiles ==
  {ScriptJsPath, ScriptJsxPath, ScriptTsxPath, StylesCssPath, MushroomJpgPath,
   TreeShakePath, LodashJoinPath}

\* Further paths the rules are tried on: a file "a" with each of these
\* endings in the directories of the sources and of the assets, in the two
\* directories the exclude of the babel-loader rule names, and in two
\* source directories whose names contain one of the two names without being
\* it (the exclude is a regular expression tested against the whole path).
Dirs ==
  { <<".", "/", "s", "r", "c", "/">>,
    <<".", "/", "n", "o", "d", "e", "_", "m", "o", "d", "u", "l", "e", "s", "/", "p", "/">>,
    <<".", "/", "b", "o", "w", "e", "r", "_", "c", "o", "m", "p", "o", "n", "e", "n", "t", "s", "/", "p", "/">>,
    <<".", "/", "s", "r", "c", "/", "a", "s", "s", "e", "t", "s", "/">>,
    <<".", "/", "s", "r", "c", "/", "o", "l", "d", "_", "n", "o", "d", "e", "_", "m", "o", "d", "u", "l", "e", "s", "/">>,
    <<".", "/", "s", "r", "c", "/", "b", "o", "w", "e", "r", "_", "c", "o", "m", "p", "o", "n", "e", "n", "t", "s", "_", "o", "l", "d", "/">> }

Endings ==
  { <<".", "j", "s">>,
    <<".", "j", "s", "x">>,
    <<".", "t", "s", "x">>,
    <<".", "t", "s">>,
    <<".", "m", "j", "s", "x">>,
    <<".", "m", "t", "s", "x">>,
    <<".", "J", "S", "X">>,
    <<".", "c", "s", "s">>,
    <<".", "C", "S", "S">>,
    <<".", "C", "s", "s">>,
    <<".", "s", "c", "s", "s">>,
    <<".", "c", "s", "s", ".", "m", "a", "p">>,
    <<"c", "s", "s">>,
    <<".", "p", "n", "g">>,
    <<".", "s", "v", "g">>,
    <<".", "j", "p", "g">>,
    <<".", "j", "p", "e", "g">>,
    <<".", "g", "i", "f">>,
    <<".", "J", "P", "G">>,
    <<".", "J", "p", "e", "g">>,
    <<".", "j", "p", "g", "x">>,
    <<".", "b", "m", "p">> }

Paths == ProjectFiles \cup { d \o <<"a">> \o e : d \in Dirs, e \in Endings }

\* The three stages of webpack.config.js that are compared.
LoadersOptimizations == "loaders-optimizations"
Option1 == "Option 1: ts-loader"
Option2 == "Option 2: babel/preset-typescript"
Configs == {LoadersOptimizations, Option1, Option2}

NoPresets == <<>>
StyleLoader == [loader |-> "style-loader", presets |-> NoPresets]
CssLoader == [loader |-> "css-loader", presets |-> NoPresets]
TsLoader == [loader |-> "ts-loader", presets |-> NoPresets]

\* babel-loader as the React stage and Option 1 configure it.
BabelLoaderJsx ==
  [loader |-> "babel-loader",
   presets |-> <<"@babel/preset-env", "@babel/preset-react">>]

\* babel-loader as Option 2 (the final configuration) configures it.
BabelLoaderTsx ==
  [loader |-> "babel-loader",
   presets |-> <<"@babel/preset-env", "@babel/preset-react",
                 "@babel/preset-typescript">>]

NoExclude == <<>>

\* module.rules of each configuration, in the order they are written.
Rules(config) ==
  IF config = LoadersOptimizations
  THEN << [test |-> CssTest, exclude |-> NoExclude,
           use |-> <<StyleLoader, CssLoader>>, type |-> "javascript/auto"],
          [test |-> ImageTest, exclude |-> NoExclude,
           use |-> <<>>, type |-> "asset/resource"] >>
  ELSE IF config = Option1
  THEN << [test |-> JsxTest, exclude |-> <<ExcludeTest>>,
           use |-> <<BabelLoaderJsx>>, type |-> "javascript/auto"],
          [test |-> TsTest, exclude |-> NoExclude,
           use |-> <<TsLoader>>, type |-> "javascript/auto"] >>
  ELSE << [test |-> JsxTsxTest, exclude |-> <<ExcludeTest>>,
           use |-> <<BabelLoaderTsx>>, type |-> "javascript/auto"] >>

\* A rule applies to a file when its test matches the path of the file and
\* its exclude, if it has one, does not.
RuleMatches(rule, path) ==
  /\ RegExpTest(rule.test, path)
  /\ rule.exclude = NoExclude \/ ~RegExpTest(rule.exclude[1], path)

\* The rules of a configuration that apply to a file, in their order.
RECURSIVE MatchingRulesOf(_, _)
MatchingRulesOf(rules, path) ==
  IF rules = <<>> THEN <<>>
  ELSE (IF RuleMatches(Head(rules), path) THEN <<Head(rules)>> ELSE <<>>)
       \o MatchingRulesOf(Tail(rules), path)

MatchingRules(config, path) == MatchingRulesOf(Rules(config), path)

\* The loaders the matching rules list, in the order they are written.
RECURSIVE UseOf(_)
UseOf(rules) ==
  IF rules = <<>> THEN <<>> ELSE Head(rules).use \o UseOf(Tail(rules))

Reverse(seq) == [k \in 1 .. Len(seq) |-> seq[Len(seq) + 1 - k]]

\* The loaders in the order webpack runs them on a file: the last listed
\* runs first.
LoaderChain(config, path) == Reverse(UseOf(MatchingRules(config, path)))

\* The module type the matching rules give a file.
ModuleType(config, path) ==
  IF \E k \in 1 .. Len(MatchingRules(config, path)) :
       MatchingRules(config, path)[k].type = "asset/resource"
  THEN "asset/resource"
  ELSE "javascript/auto"

\* Whether str ends with the (lower-case) suffix, letter case put aside.
EndsWith(str, suffix) ==
  /\ Len(str) >= Len(suffix)
  /\ \A k \in 1 .. Len(suffix) :
       toLowerCase(str[Len(str) - Len(suffix) + k]) = suffix[k]

ImageEndings ==
  { <<".", "p", "n", "g">>,
    <<".", "s", "v", "g">>,
    <<".", "j", "p", "g">>,
    <<".", "j", "p", "e", "g">>,
    <<".", "g", "i", "f">> }

\* What a file contains, by its kind: script.tsx has type annotations and JSX,
\* script.jsx has JSX, and all scripts use const and arrow functions.
Syntax(path) ==
  IF EndsWith(path, <<".", "t", "s", "x">>) THEN {"typescript", "jsx", "es2015+"}
  ELSE IF EndsWith(path, <<".", "t", "s">>) THEN {"typescript", "es2015+"}
  ELSE IF EndsWith(path, <<".", "j", "s", "x">>) THEN {"jsx", "es2015+"}
  ELSE IF EndsWith(path, <<".", "j", "s">>) THEN {"es2015+"}
  ELSE IF EndsWith(path, <<".", "c", "s", "s">>) THEN {"css"}
  ELSE IF \E e \in ImageEndings : EndsWith(path, e) THEN {"binary"}
  ELSE {"other"}

\* What webpack's parser accepts as the result of the loaders.
Javascript == {"es2015+", "css-exports", "style-injection"}

TypeErrorMessage == "Type 'string' is not assignable to type 'number'"
ParseErrorMessage == "Module parse failed"

\* What a Babel preset does to the code.
ApplyPreset(preset, code) ==
  IF preset = "@babel/preset-typescript" THEN code \ {"typescript"}
  ELSE IF preset = "@babel/preset-react" THEN code \ {"jsx"}
  ELSE code \ {"es2015+"}

\* Presets run in the order they are written.
PresetOrderAsWritten(presets) == presets

\* The order Babel runs the presets of its presets array in: last to first.
PresetOrder(presets) == Reverse(presets)

\* The passes of Babel over the code: each preset with the code it receives.
RECURSIVE BabelPasses(_, _)
BabelPasses(order, code) ==
  IF order = <<>> THEN <<>>
  ELSE << [preset |-> Head(order), input |-> code] >>
       \o BabelPasses(Tail(order), ApplyPreset(Head(order), code))

\* The code Babel returns.
RECURSIVE BabelOutput(_, _)
BabelOutput(order, code) ==
  IF order = <<>> THEN code
  ELSE BabelOutput(Tail(order), ApplyPreset(Head(order), code))

\* ts-loader accepting a file whatever the type checker says.
TsLoaderAcceptsNoCheck(hasTypeError) == TRUE

\* ts-loader type checks the file and accepts it when there is no type error.
TsLoaderAccepts(hasTypeError) == ~hasTypeError

\* The code a loader returns (ts-loader with "jsx": "preserve" removes the
\* types and leaves the JSX).
LoaderOutput(l, code) ==
  IF l.loader = "ts-loader" THEN code \ {"typescript"}
  ELSE IF l.loader = "babel-loader" THEN BabelOutput(PresetOrder(l.presets), code)
  ELSE IF l.loader = "css-loader" THEN (code \ {"css"}) \cup {"css-exports"}
  ELSE (code \ {"css-exports"}) \cup {"style-injection"}

\* src/tree-shake.js and the use src/script.js makes of it.
Exports(path) == IF path = TreeShakePath THEN {"funcA", "funcB"} ELSE {}
ImportedNames(path) == IF path = TreeShakePath THEN {"funcA"} ELSE {}
CalledNames(path) == IF path = TreeShakePath THEN {"funcA"} ELSE {}

\* Exports removed as soon as usedExports marks them.
BundleExportsMarkOnly(opt, path) ==
  IF opt.usedExports
  THEN Exports(path) \cap ImportedNames(path) \cap CalledNames(path)
  ELSE Exports(path)

\* The exports of a module that are in the bundle: usedExports marks those
\* no module imports and uses, and the minimizer removes what is marked.
BundleExports(opt, path) ==
  IF opt.usedExports /\ opt.minimize
  THEN Exports(path) \cap ImportedNames(path) \cap CalledNames(path)
  ELSE Exports(path)

Optimizations == [usedExports : BOOLEAN, minimize : BOOLEAN]

InitCompile ==
  /\ wpStage = "idle"
  /\ wpConfig = "none"
  /\ wpFile = <<>>
  /\ wpTypeError = FALSE
  /\ wpOptimization = [usedExports |-> FALSE, minimize |-> FALSE]
  /\ wpCode = {}
  /\ wpChain = <<>>
  /\ wpLoaders = <<>>
  /\ wpPresets = <<>>
  /\ wpReport = <<>>
  /\ wpExports = {}

\* webpack is run with a configuration and comes to a file: the rules that
\* match it fix its loaders and its module type.
ResolveModule(config, path, hasTypeError, opt) ==
  /\ wpStage = "idle"
  /\ wpConfig' = config
  /\ wpFile' = path
  /\ wpTypeError' = hasTypeError
  /\ wpOptimization' = opt
  /\ wpCode' = Syntax(path)
  /\ wpChain' = LoaderChain(config, path)
  /\ wpStage' = IF ModuleType(config, path) = "asset/resource" THEN "asset" ELSE "load"
  /\ UNCHANGED <<wpLoaders, wpPresets, wpReport, wpExports>>
  /\ UNCHANGED <<reactVars, buildVars, lazyVars, variantVars, lintVars>>

\* The next loader of the chain runs on the code.
RunLoader ==
  /\ wpStage = "load"
  /\ wpChain # <<>>
  /\ LET l == Head(wpChain) IN
       /\ wpLoaders' = Append(wpLoaders, l.loader)
       /\ IF l.loader = "ts-loader" /\ ~TsLoaderAccepts(wpTypeError)
          THEN /\ wpStage' = "failed"
               /\ wpReport' = Append(wpReport, TypeErrorMessage)
               /\ UNCHANGED <<wpCode, wpChain, wpPresets>>
          ELSE /\ wpCode' = LoaderOutput(l, wpCode)
               /\ wpChain' = Tail(wpChain)
               /\ wpPresets' = wpPresets \o BabelPasses(PresetOrder(l.presets), wpCode)
               /\ UNCHANGED <<wpStage, wpReport>>
  /\ UNCHANGED <<wpConfig, wpFile, wpTypeError, wpOptimization, wpExports>>
  /\ UNCHANGED <<reactVars, buildVars, lazyVars, variantVars, lintVars>>

\* The loaders are through: webpack parses their result as JavaScript.
ParseModule ==
  /\ wpStage = "load"
  /\ wpChain = <<>>
  /\ IF wpCode \subseteq Javascript
     THEN wpStage' = "parsed" /\ UNCHANGED wpReport
     ELSE wpStage' = "failed" /\ wpReport' = Append(wpReport, ParseErrorMessage)
  /\ UNCHANGED <<wpConfig, wpFile, wpTypeError, wpOptimization, wpCode, wpChain,
                 wpLoaders, wpPresets, wpExports>>
  /\ UNCHANGED <<reactVars, buildVars, lazyVars, variantVars, lintVars>>

\* The module goes into the bundle with the exports the optimization leaves.
OptimizeModule ==
  /\ wpStage = "parsed"
  /\ wpStage' = "bundled"
  /\ wpExports' = BundleExports(wpOptimization, wpFile)
  /\ UNCHANGED <<wpConfig, wpFile, wpTypeError, wpOptimization, wpCode, wpChain,
                 wpLoaders, wpPresets, wpReport>>
  /\ UNCHANGED <<reactVars, buildVars, lazyVars, variantVars, lintVars>>

\* An asset/resource module is written to dist as a file of its own.
EmitAsset ==
  /\ wpStage = "asset"
  /\ wpStage' = "emitted"
  /\ UNCHANGED <<wpConfig, wpFile, wpTypeError, wpOptimization, wpCode, wpChain,
                 wpLoaders, wpPresets, wpReport, wpExports>>
  /\ UNCHANGED <<reactVars, buildVars, lazyVars, variantVars, lintVars>>

NextCompile ==
  \/ \E config \in Configs, path \in Paths, hasTypeError \in BOOLEAN,
        opt \in Optimizations : ResolveModule(config, path, hasTypeError, opt)
  \/ RunLoader
  \/ ParseModule
  \/ OptimizeModule
  \/ EmitAsset

(***************************************************************************)
(* Part 5: the three versions of LikeButton of the react-and-jsx tutorial  *)
(* (class syntax, local variable, useState), each mounted once per index   *)
(* as ManyButtons mounts LikeButton, and given the same clicks             *)
(***************************************************************************)

\* Clicks that are explored.
MaxVariantClicks == 6

\* this.state as the constructor of the class version sets it.
InitialState == [liked |-> FALSE]

\* render() of the class version.
ClassRender(state) == IF state.liked THEN "span" ELSE "button"

\* A setState that drops the update.
setStateDropped(state, partial) == state

\* this.setState(partial): the state with the fields of partial replaced.
setState(state, partial) == [state EXCEPT !.liked = partial.liked]

\* A variable declared outside the component, so that a render finds the
\* value the last handler has left.
letLikedOutside(previous) == previous # <<>> /\ previous[1]

\* let liked = false: every run of the component function starts from false,
\* whatever a handler assigned to the variable of an earlier run.
letLiked(previous) == FALSE

InitVariants ==
  /\ vMounted = FALSE
  /\ vClicks = 0
  /\ clsState = [i \in Buttons |-> <<>>]
  /\ clsDom = [i \in Buttons |-> "none"]
  /\ fnMemo = [i \in Buttons |-> NoHook]
  /\ fnDom = [i \in Buttons |-> "none"]
  /\ locLiked = [i \in Buttons |-> NotRendered]
  /\ locDom = [i \in Buttons |-> "none"]
  /\ locConsole = <<>>

\* ReactDOM.render mounts the instances of each version.
MountVariants ==
  /\ ~vMounted
  /\ vMounted' = TRUE
  /\ clsState' = [i \in Buttons |-> <<InitialState>>]
  /\ clsDom' = [i \in Buttons |-> ClassRender(InitialState)]
  /\ fnMemo' = [i \in Buttons |-> <<useState(NoHook, <<>>, FALSE)>>]
  /\ fnDom' = [i \in Buttons |-> LikeButton(useState(NoHook, <<>>, FALSE))]
  /\ locLiked' = [i \in Buttons |-> <<letLiked(NotRendered)>>]
  /\ locDom' = [i \in Buttons |-> LikeButton(letLiked(NotRendered))]
  /\ UNCHANGED <<vClicks, locConsole>>
  /\ UNCHANGED <<reactVars, buildVars, lazyVars, compileVars, lintVars>>

\* The user clicks the element of instance i in each version. Where it is a
\* button its onClick runs: the class version calls setState and the useState
\* version setLiked, and React renders the instance again; the local-variable
\* version assigns its variable and logs, and React is told nothing.
ClickVariants(i) ==
  /\ vMounted
  /\ vClicks < MaxVariantClicks
  /\ vClicks' = vClicks + 1
  /\ IF clsDom[i] = "button"
     THEN LET next == setState(clsState[i][1], [liked |-> TRUE]) IN
            /\ clsState' = [clsState EXCEPT ![i] = <<next>>]
            /\ clsDom' = [clsDom EXCEPT ![i] = ClassRender(next)]
     ELSE UNCHANGED <<clsState, clsDom>>
  /\ IF fnDom[i] = "button"
     THEN LET next == useState(fnMemo[i], <<TRUE>>, FALSE) IN
            /\ fnMemo' = [fnMemo EXCEPT ![i] = <<next>>]
            /\ fnDom' = [fnDom EXCEPT ![i] = LikeButton(next)]
     ELSE UNCHANGED <<fnMemo, fnDom>>
  /\ IF locDom[i] = "button"
     THEN /\ locLiked' = [locLiked EXCEPT ![i] = <<TRUE>>]
          /\ locConsole' = Append(locConsole, "button was clicked")
     ELSE UNCHANGED <<locLiked, locConsole>>
  /\ UNCHANGED <<vMounted, locDom>>
  /\ UNCHANGED <<reactVars, buildVars, lazyVars, compileVars, lintVars>>

\* React runs the component of instance i again in each version without an
\* update of its own (the root is rendered again).
RerenderVariants(i) ==
  /\ vMounted
  /\ clsDom' = [clsDom EXCEPT ![i] = ClassRender(clsState[i][1])]
  /\ fnMemo' = [fnMemo EXCEPT ![i] = <<useState(fnMemo[i], <<>>, FALSE)>>]
  /\ fnDom' = [fnDom EXCEPT ![i] = LikeButton(useState(fnMemo[i], <<>>, FALSE))]
  /\ locLiked' = [locLiked EXCEPT ![i] = <<letLiked(locLiked[i])>>]
  /\ locDom' = [locDom EXCEPT ![i] = LikeButton(letLiked(locLiked[i]))]
  /\ UNCHANGED <<vMounted, vClicks, clsState, locConsole>>
  /\ UNCHANGED <<reactVars, buildVars, lazyVars, compileVars, lintVars>>

NextVariants ==
  \/ MountVariants
  \/ \E i \in Buttons : ClickVariants(i)
  \/ \E i \in Buttons : RerenderVariants(i)

(***************************************************************************)
(* Part 6: ESLint run on a file with the .eslintrc.json of linters         *)
(***************************************************************************)

\* The rules the tutorial meets: two of eslint:recommended and the three it
\* sets itself, in the order they are checked here.
RuleIds == <<"no-dupe-keys", "no-unused-vars", "quotes", "semi", "camelcase">>

\* "rules" of .eslintrc.json, first as it is created and then with camelcase
\* turned on.
EslintrcRules(config) ==
  IF config = "quotes, semi"
  THEN [quotes |-> "error", semi |-> "error"]
  ELSE [quotes |-> "error", semi |-> "error", camelcase |-> "warn"]

\* The severity of a rule: what "rules" says, else what eslint:recommended
\* says ("extends"), else off.
Severity(config, rule) ==
  IF rule \in DOMAIN EslintrcRules(config) THEN EslintrcRules(config)[rule]
  ELSE IF rule \in {"no-dupe-keys", "no-unused-vars"} THEN "error"
  ELSE "off"

\* An ESLint that fails on any message.
ExitCodeAnyMessage(messages) == IF messages # <<>> THEN 1 ELSE 0

\* The exit code of npx eslint: 1 when an error was reported, else 0.
ExitCode(messages) ==
  IF \E k \in 1 .. Len(messages) : messages[k].severity = "error" THEN 1 ELSE 0

InitLint ==
  /\ lintStage = "idle"
  /\ lintConfig = "none"
  /\ lintViolations = {}
  /\ lintChecked = 0
  /\ lintMessages = <<>>
  /\ lintExit = 0

\* npx eslint script.js: ESLint reads the configuration and the file.
StartLint(config, violations) ==
  /\ lintStage = "idle"
  /\ lintStage' = "linting"
  /\ lintConfig' = config
  /\ lintViolations' = violations
  /\ UNCHANGED <<lintChecked, lintMessages, lintExit>>
  /\ UNCHANGED <<reactVars, buildVars, lazyVars, compileVars, variantVars>>

\* The next rule is checked: a rule that is on and that the file violates
\* adds a message of the severity of the rule.
CheckRule ==
  /\ lintStage = "linting"
  /\ lintChecked < Len(RuleIds)
  /\ lintChecked' = lintChecked + 1
  /\ LET rule == RuleIds[lintChecked + 1] IN
       lintMessages' =
         IF rule \in lintViolations /\ Severity(lintConfig, rule) # "off"
         THEN Append(lintMessages,
                     [ruleId |-> rule, severity |-> Severity(lintConfig, rule)])
         ELSE lintMessages
  /\ UNCHANGED <<lintStage, lintConfig, lintViolations, lintExit>>
  /\ UNCHANGED <<reactVars, buildVars, lazyVars, compileVars, variantVars>>

\* All rules are checked: the messages are printed and ESLint exits.
FinishLint ==
  /\ lintStage = "linting"
  /\ lintChecked = Len(RuleIds)
  /\ lintStage' = "done"
  /\ lintExit' = ExitCode(lintMessages)
  /\ UNCHANGED <<lintConfig, lintViolations, lintChecked, lintMessages>>
  /\ UNCHANGED <<reactVars, buildVars, lazyVars, compileVars, variantVars>>

NextLint ==
  \/ \E config \in {"quotes, semi", "quotes, semi, camelcase"},
        violations \in SUBSET Range(RuleIds) : StartLint(config, violations)
  \/ CheckRule
  \/ FinishLint

(***************************************************************************)
(* Specifications                                                          *)
(***************************************************************************)

Init == InitReact /\ InitBuild /\ InitLazy /\ InitCompile /\ InitVariants /\ InitLint

\* The react-and-jsx page alone.
SpecReact == Init /\ [][NextReact]_vars

\* script.jsx loaded by index.html or by a page that differs from it in the
\* defer attribute or in the id of the div.
InitAnyPage ==
  /\ htmlPage \in HtmlPages
  /\ InitReactState
  /\ InitBuild /\ InitLazy /\ InitCompile /\ InitVariants /\ InitLint

SpecReactAnyPage == InitAnyPage /\ [][NextReact]_vars

\* The webpack project alone: the build, then its page in the browser.
NextWebpack ==
  \/ NextBuild
  \/ NextLazy

SpecWebpack == Init /\ [][NextWebpack]_vars

\* The event loop runs every queued promise job. Nothing obliges the user to
\* click, and nothing obliges the download of the chunk to succeed or even to
\* end.
FairSpecWebpack ==
  /\ SpecWebpack
  /\ WF_vars(RunMicrotask)

\* Both projects side by side.
Next ==
  \/ NextReact
  \/ NextWebpack

Spec == Init /\ [][Next]_vars

\* webpack building one module, for each configuration and file.
SpecCompile == Init /\ [][NextCompile]_vars

\* The three versions of LikeButton under the same clicks.
SpecVariants == Init /\ [][NextVariants]_vars

\* ESLint run on one file, for each configuration and set of violations.
SpecLint == Init /\ [][NextLint]_vars

(***************************************************************************)
(* Properties of the react-and-jsx page                                    *)
(***************************************************************************)

\* C1: every LikeButton instance shows the "Click to like!" button exactly
\* when its flag liked is false and the "Liked!" span exactly when liked is
\* true; its first render has liked = false; and the flag, which is the
\* memoized useState value, is all the state it holds (no update is left
\* queued between events).
C1_TwoStatesOneFlag ==
  \A i \in Buttons :
    /\ (dom[i] = "button") <=> (liked[i] = <<FALSE>>)
    /\ (dom[i] = "span") <=> (liked[i] = <<TRUE>>)
    /\ (dom[i] = "none") <=> (liked[i] = NotRendered)
    /\ renders[i] = 1 => liked[i] = <<FALSE>>
    /\ hook[StateCell(i)] = liked[i]
    /\ queue[StateCell(i)] = <<>>

\* An instance that shows the span with liked = true beside one that still
\* shows the button with liked = false.
C1_Witness ==
  \E i, j \in Buttons :
    /\ dom[i] = "span" /\ liked[i] = <<TRUE>>
    /\ dom[j] = "button" /\ liked[j] = <<FALSE>>

\* C2: once the click on a LikeButton has been processed, the instance has
\* liked = true and shows the span instead of the button.
C2_ClickShowsSpan ==
  \A i \in clicked : liked[i] = <<TRUE>> /\ dom[i] = "span"

\* A click has been processed and its instance shows the span.
C2_Witness ==
  \E i \in clicked : dom[i] = "span" /\ renders[i] = 2

\* C3: a click on the LikeButton at index i changes the flag and the
\* rendering of instance i only; every other instance keeps its flag, its
\* state cell and its element.
C3_ClickTouchesOneInstance ==
  [][\A i \in Buttons :
       (i \notin clicked /\ clicked' = clicked \cup {i}) =>
          \A j \in Buttons \ {i} :
            /\ liked'[j] = liked[j]
            /\ dom'[j] = dom[j]
            /\ hook'[StateCell(j)] = hook[StateCell(j)]
            /\ renders'[j] = renders[j]]_vars

\* Two instances have been clicked and a third one still shows its button.
C3_Witness ==
  \E i, j, k \in Buttons :
    /\ i # j /\ {i, j} \subseteq clicked /\ k \notin clicked
    /\ dom[i] = "span" /\ dom[j] = "span" /\ dom[k] = "button"

\* C4: a render of a LikeButton never takes the flag back to the initial
\* value: an instance whose liked is true has liked true after every step,
\* and its state cell keeps the value.
C4_StateSurvivesRerender ==
  [][\A i \in Buttons :
       liked[i] = <<TRUE>> =>
         liked'[i] = <<TRUE>> /\ hook'[StateCell(i)] = <<TRUE>>]_vars

\* A liked instance that has been rendered again after the render of its click.
C4_Witness ==
  \E i \in clicked : liked[i] = <<TRUE>> /\ renders[i] = 3

\* C8: document.querySelector is called exactly once, before ReactDOM.render,
\* which is called once with the node found; no click and no render of a
\* component makes a further call of either.
C8_OneQueryOneRender ==
  /\ qsCalls <= 1
  /\ renderCalls <= 1
  /\ renderCalls = 1 => qsCalls = 1
  /\ (pc = Len(ScriptStatements) + 1) => (qsCalls = 1 /\ renderCalls = 1)
  /\ (\E i \in Buttons : dom[i] # "none") => domContainer = "app"

\* All buttons that can be clicked have been clicked, after one query and one
\* render call.
C8_Witness ==
  /\ clicked = Buttons
  /\ qsCalls = 1
  /\ renderCalls = 1

\* C9: script.js starts only after index.html, div#app included, has been
\* parsed, whenever its download ends, so document.querySelector("#app")
\* does not return null and the script does not throw.
C9_DeferRunsAfterParse ==
  /\ pc >= 1 => (parsePos = Len(IndexHtml) /\ "app" \in document)
  /\ qsCalls >= 1 => domContainer = "app"
  /\ ~threw

\* script.js has run to its end and its query returned div#app.
C9_Witness ==
  qsCalls = 1 /\ domContainer = "app" /\ ScriptDone

(***************************************************************************)
(* Properties of the webpack project                                       *)
(***************************************************************************)

\* C5: as long as the "Click me!" button has not been clicked, lazy-module is
\* neither downloaded nor evaluated: its chunk has not been requested, it is
\* no script of the page, it is not in the module cache and its log line is
\* not in the console, at page load and ever after.
C5_NothingBeforeClick ==
  lzClicks = 0 =>
    /\ chunk = "absent"
    /\ LazyModule \notin moduleCache
    /\ LoadedLog \notin Range(console)
    /\ ChunkFilename(LazyModule) \notin (lzFetched \cup Range(PageScripts))

\* The page has loaded completely (the entry has run, funcA has logged, the
\* image is there) and nobody has clicked.
C5_Witness ==
  /\ lzLoaded
  /\ "funcA" \in Range(console)
  /\ imgState = "loaded"
  /\ lzClicks = 0
  /\ chunk = "absent"

\* C6: once the import() of a click resolves, the callback passed to then
\* calls getBigData and logs its result: the data is never logged more often
\* than imports have resolved, every import that resolves is eventually
\* followed by a log of the data (the k-th one by the k-th log), and the log
\* line of lazy-module itself precedes the first log of the data. Nothing is
\* said of a click whose import does not resolve.
C6_ResolvedImportLeadsToLog ==
  /\ [](getBigData \in Range(console) =>
          FirstIndex(console, LoadedLog) < FirstIndex(console, getBigData))
  /\ [](Count(console, getBigData) <= Count(imports, "fulfilled"))
  /\ \A k \in 1 .. MaxClicks :
       (Count(imports, "fulfilled") >= k) ~> (Count(console, getBigData) >= k)

\* The import of every click explored has resolved and each has logged the
\* data, after the single line of the module itself.
C6_Witness ==
  /\ lzClicks = MaxClicks
  /\ \A k \in 1 .. MaxClicks : imports[k] = "fulfilled"
  /\ Count(console, getBigData) = MaxClicks
  /\ Count(console, LoadedLog) = 1
  /\ FirstIndex(console, LoadedLog) < FirstIndex(console, getBigData)

\* C7 as stated: no handler leaves work pending once its event is over (the
\* promise jobs it queued included), in LikeButton and in buttonComponent.
C7_NoWorkPendingAfterEvent ==
  microtasks = <<>> =>
    /\ waiters = <<>>
    /\ \A c \in Cells : queue[c] = <<>>

\* C7 amended: the click handler of LikeButton leaves nothing pending and its
\* effect is complete when the event is over; the click handler of
\* buttonComponent leaves the import pending while the chunk is downloaded.
\* Between events the clicks on it whose import is pending are those waiting
\* for that download, and every click has either logged its data, or is
\* waiting for the download, or has had its import rejected by a download
\* that failed.
C7_OnlyImportPending ==
  /\ \A c \in Cells : queue[c] = <<>>
  /\ \A i \in clicked : dom[i] = "span"
  /\ waiters # <<>> => chunk = "loading"
  /\ microtasks = <<>> =>
       /\ \A k \in 1 .. lzClicks : imports[k] = "pending" <=> k \in Range(waiters)
       /\ Count(console, getBigData) + Len(waiters) + Count(imports, "rejected")
            = lzClicks

\* A second click on "Click me!" has been handled while the import of the
\* first is pending, and a LikeButton has been clicked.
C7_Witness ==
  /\ Len(waiters) = 2
  /\ chunk = "loading"
  /\ microtasks = <<>>
  /\ imports = <<"pending", "pending">>
  /\ clicked # {}

\* C10: the build writes one bundle per entry, named after it (script.js,
\* page2.js, shared.js); each HTML page gets script tags for the chunks listed
\* for it and no others (index.html: script and shared; page2/index.html:
\* page2 and shared, never script.js); and index.html downloads just those
\* when it is opened.
C10_BundlesAndPages ==
  /\ EntryBundles = {"script.js", "page2.js", "shared.js"}
  /\ Cardinality(EntryBundles) = Len(Entry)
  /\ bPhase = "done" => (EntryBundles \cup Pages) \subseteq emitted
  /\ html["index.html"] \in {NoPage, <<"script.js", "shared.js">>}
  /\ html["page2/index.html"] \in {NoPage, <<"page2.js", "shared.js">>}
  /\ \A pg \in Pages : pg \in emitted => html[pg] # NoPage
  /\ "script.js" \notin Range(html["page2/index.html"])
  /\ \A pg \in Pages : Range(html[pg]) \cap AsyncChunks = {}
  /\ lzFetched \subseteq {"script.js", "shared.js"}

\* The build is over, both pages are written and index.html has downloaded
\* its two scripts.
C10_Witness ==
  /\ bPhase = "done"
  /\ {"script.js", "page2.js", "shared.js"} \subseteq emitted
  /\ html["page2/index.html"] = <<"page2.js", "shared.js">>
  /\ lzFetched = {"script.js", "shared.js"}

\* C11: lodash/join is in the bundle of the entry "shared" and in no other
\* entry bundle (not in script.js, not in page2.js); every written page that
\* has the script tag of an entry has the script tags of the entries it
\* depends on; and in the browser src/script.js starts only after shared.js
\* has run.
C11_SharedHoldsLodash ==
  /\ \A n \in EntryNames :
       OutputFilename(n) \in emitted => (LodashJoin \in ChunkModules(n) <=> n = "shared")
  /\ \A pg \in Pages : \A n \in EntryNames :
       (html[pg] # NoPage /\ OutputFilename(n) \in Range(html[pg]))
         => \A d \in Range(EntryOf(n).dependOn) : OutputFilename(d) \in Range(html[pg])
  /\ lzLoaded =>
       \E k \in 1 .. lzExecuted : PageScripts[k] = OutputFilename("shared")

\* The three bundles and both pages are written and src/script.js has started
\* in the browser, with lodash/join evaluated.
C11_Witness ==
  /\ {OutputFilename("script"), OutputFilename("page2"), OutputFilename("shared")}
       \subseteq emitted
  /\ \A pg \in Pages : html[pg] # NoPage
  /\ lzLoaded
  /\ LodashJoin \in moduleCache

(***************************************************************************)
(* Properties of the build of one module                                   *)
(***************************************************************************)

\* C12: when src/tree-shake.js is bundled with optimization.usedExports and
\* optimization.minimize both true, the bundle holds an export of it exactly
\* when src/script.js imports and uses it: funcA is in the bundle and funcB is
\* not; with either option off, funcA and funcB are both in the bundle.
C12_TreeShaking ==
  (wpStage = "bundled" /\ wpConfig = LoadersOptimizations /\ wpFile = TreeShakePath)
    => IF wpOptimization.usedExports /\ wpOptimization.minimize
       THEN /\ \A f \in Exports(TreeShakePath) :
                 f \in wpExports <=> (f \in ImportedNames(TreeShakePath)
                                      /\ f \in CalledNames(TreeShakePath))
            /\ "funcA" \in wpExports
            /\ "funcB" \notin wpExports
       ELSE {"funcA", "funcB"} \subseteq wpExports

\* src/tree-shake.js has been bundled with both options on and only funcA is
\* left of it.
C12_Witness ==
  /\ wpStage = "bundled"
  /\ wpConfig = LoadersOptimizations
  /\ wpFile = TreeShakePath
  /\ wpOptimization = [usedExports |-> TRUE, minimize |-> TRUE]
  /\ wpExports = {"funcA"}

\* C13: under the Option 1 configuration (the babel-loader rule with test
\* /\.m?jsx$/ followed by the ts-loader rule with test /\.tsx?$/), once the
\* loaders of the entry ./src/script.tsx (free of type errors) are through,
\* both loaders have run on it, ts-loader first and babel-loader second.
C13_TsLoaderThenBabelLoader ==
  (/\ wpConfig = Option1
   /\ wpFile = ScriptTsxPath
   /\ ~wpTypeError
   /\ wpStage \in {"load", "parsed", "bundled", "failed"}
   /\ wpChain = <<>>)
    => wpLoaders = <<"ts-loader", "babel-loader">>

\* C14: Babel runs the presets of its presets array last to first. With
\* [preset-env, preset-react, preset-typescript] (Option 2) the types are
\* stripped first, the JSX is transformed second and preset-env runs last;
\* with [preset-env, preset-react] the JSX is transformed before preset-env
\* runs. No file reaches the JSX transform with type annotations in it, and
\* none reaches preset-env with JSX or type annotations in it.
C14_PresetsRunInReverse ==
  /\ \A k \in 1 .. Len(wpPresets) :
       /\ wpPresets[k].preset = "@babel/preset-react"
            => "typescript" \notin wpPresets[k].input
       /\ wpPresets[k].preset = "@babel/preset-env"
            => wpPresets[k].input \cap {"typescript", "jsx"} = {}
  /\ (wpConfig = Option2 /\ "babel-loader" \in Range(wpLoaders))
       => [k \in 1 .. Len(wpPresets) |-> wpPresets[k].preset]
            = <<"@babel/preset-typescript", "@babel/preset-react", "@babel/preset-env">>
  /\ (wpConfig = Option1 /\ "babel-loader" \in Range(wpLoaders))
       => [k \in 1 .. Len(wpPresets) |-> wpPresets[k].preset]
            = <<"@babel/preset-react", "@babel/preset-env">>

\* babel-loader has run on ./src/script.tsx under Option 2: the first preset
\* received the type annotations and the JSX, and nothing of them is left.
C14_Witness ==
  /\ wpConfig = Option2
  /\ wpFile = ScriptTsxPath
  /\ Len(wpPresets) = 3
  /\ {"typescript", "jsx"} \subseteq wpPresets[1].input
  /\ wpCode = {}

\* C15: when ts-loader is among the loaders of a file that has a type error,
\* the file is never parsed or bundled, and once ts-loader has run the build
\* has failed with the type error reported. Under Option 2 (preset-typescript,
\* no ts-loader) the entry ./src/script.tsx goes through with or without a
\* type error: nothing is reported, the build does not fail, and what the
\* loaders hand to the parser is JavaScript.
C15_TypeErrorsCancelOnlyWithTsLoader ==
  /\ (/\ wpStage # "idle"
      /\ wpTypeError
      /\ TsLoader \in Range(LoaderChain(wpConfig, wpFile)))
       => /\ wpStage \notin {"parsed", "bundled"}
          /\ "ts-loader" \in Range(wpLoaders)
               => (wpStage = "failed" /\ wpReport = <<TypeErrorMessage>>)
  /\ (wpConfig = Option2 /\ wpFile = ScriptTsxPath)
       => /\ wpStage # "failed"
          /\ wpReport = <<>>
          /\ "ts-loader" \notin Range(wpLoaders)
          /\ (wpStage = "load" /\ wpChain = <<>>) => wpCode \subseteq Javascript

\* Under Option 1 the build of ./src/script.tsx, which has a type error, has
\* been cancelled by ts-loader with the error reported.
C15_Witness ==
  /\ wpConfig = Option1
  /\ wpFile = ScriptTsxPath
  /\ wpTypeError
  /\ wpLoaders = <<"ts-loader">>
  /\ wpStage = "failed"
  /\ wpReport = <<TypeErrorMessage>>

\* C16 as stated: under the final configuration (test /\.m?[jt]sx$/, exclude
\* /(node_modules|bower_components)/) babel-loader is among the loaders of
\* every file whose name ends with .jsx or .tsx and whose path has no
\* directory named node_modules or bower_components above it, and it has run
\* once the loaders of such a file are through; the entry ./src/script.tsx is
\* such a file.
C16_BabelLoaderOnJsxAndTsx ==
  LET hasExtension(ext) ==
        /\ Len(wpFile) >= Len(ext)
        /\ SubSeq(wpFile, Len(wpFile) - Len(ext) + 1, Len(wpFile)) = ext
      under(dir) ==
        \E k \in 1 .. Len(wpFile) :
          /\ k + Len(dir) + 1 <= Len(wpFile)
          /\ SubSeq(wpFile, k, k + Len(dir) + 1) = <<"/">> \o dir \o <<"/">>
      inScope ==
        /\ hasExtension(<<".", "j", "s", "x">>) \/ hasExtension(<<".", "t", "s", "x">>)
        /\ ~under(<<"n", "o", "d", "e", "_", "m", "o", "d", "u", "l", "e", "s">>)
        /\ ~under(<<"b", "o", "w", "e", "r", "_", "c", "o", "m", "p", "o", "n", "e", "n", "t", "s">>)
  IN /\ (wpConfig = Option2 /\ wpStage # "idle" /\ inScope)
          => /\ BabelLoaderTsx \in Range(LoaderChain(wpConfig, wpFile))
             /\ wpChain = <<>> => "babel-loader" \in Range(wpLoaders)
     /\ (wpConfig = Option2 /\ wpFile = ScriptTsxPath) => inScope

\* C16 amended: under the final configuration babel-loader is among the
\* loaders of a file exactly when its name ends with .jsx, .tsx, .mjsx or
\* .mtsx and the text node_modules or bower_components occurs nowhere in its
\* path, be it as the name of a directory or inside a longer name; it has run
\* once the loaders of such a file are through, and no loader runs on any
\* other file. The entry ./src/script.tsx is such a file.
C16_BabelLoaderUnlessPathContains ==
  LET hasExtension(ext) ==
        /\ Len(wpFile) >= Len(ext)
        /\ SubSeq(wpFile, Len(wpFile) - Len(ext) + 1, Len(wpFile)) = ext
      contains(text) ==
        \E k \in 1 .. Len(wpFile) :
          /\ k + Len(text) - 1 <= Len(wpFile)
          /\ SubSeq(wpFile, k, k + Len(text) - 1) = text
      inScope ==
        /\ \/ hasExtension(<<".", "j", "s", "x">>)
           \/ hasExtension(<<".", "t", "s", "x">>)
           \/ hasExtension(<<".", "m", "j", "s", "x">>)
           \/ hasExtension(<<".", "m", "t", "s", "x">>)
        /\ ~contains(<<"n", "o", "d", "e", "_", "m", "o", "d", "u", "l", "e", "s">>)
        /\ ~contains(<<"b", "o", "w", "e", "r", "_", "c", "o", "m", "p", "o", "n", "e", "n", "t", "s">>)
  IN /\ (wpConfig = Option2 /\ wpStage # "idle")
          => /\ inScope <=> BabelLoaderTsx \in Range(LoaderChain(wpConfig, wpFile))
             /\ ~inScope => (LoaderChain(wpConfig, wpFile) = <<>> /\ wpLoaders = <<>>)
             /\ (inScope /\ wpChain = <<>>) => wpLoaders = <<"babel-loader">>
     /\ (wpConfig = Option2 /\ wpFile = ScriptTsxPath) => inScope

\* Under the final configuration a .jsx file in ./src/old_node_modules/ has
\* gone to the parser with no loader run on it, and the parser has refused
\* its JSX.
C16_Witness ==
  /\ wpConfig = Option2
  /\ wpFile = <<".", "/", "s", "r", "c", "/", "o", "l", "d", "_", "n", "o", "d", "e", "_",
                "m", "o", "d", "u", "l", "e", "s", "/", "a", ".", "j", "s", "x">>
  /\ wpLoaders = <<>>
  /\ wpStage = "failed"
  /\ wpReport = <<ParseErrorMessage>>

\* C17: under the loaders-optimizations configuration a file is handled by
\* css-loader and then style-loader exactly when its name ends with .css in
\* any letter case, and is an asset/resource module, written to dist as a file
\* of its own, exactly when its name ends with .png, .svg, .jpg, .jpeg or .gif
\* in any letter case; any other file gets no loader. The two imports of
\* src/script.js, ./styles.css and the .jpg image, fall under the first and
\* the second rule.
C17_RulesByFileEnding ==
  (wpConfig = LoadersOptimizations /\ wpStage # "idle")
    => LET isCss == EndsWith(wpFile, <<".", "c", "s", "s">>)
           isImage == \E e \in ImageEndings : EndsWith(wpFile, e)
       IN /\ isCss <=> LoaderChain(wpConfig, wpFile) = <<CssLoader, StyleLoader>>
          /\ ~isCss <=> LoaderChain(wpConfig, wpFile) = <<>>
          /\ isImage <=> ModuleType(wpConfig, wpFile) = "asset/resource"
          /\ wpStage \in {"asset", "emitted"} <=> isImage
          /\ wpStage \in {"parsed", "bundled"}
               => (isCss <=> wpLoaders = <<"css-loader", "style-loader">>)
          /\ wpFile = StylesCssPath => isCss
          /\ wpFile = MushroomJpgPath => isImage

\* A file whose name ends with .CSS in capitals has gone through css-loader
\* and style-loader and is in the bundle.
C17_Witness ==
  /\ wpConfig = LoadersOptimizations
  /\ wpFile # <<>>
  /\ wpFile[Len(wpFile)] = "S"
  /\ wpLoaders = <<"css-loader", "style-loader">>
  /\ wpStage = "bundled"

(***************************************************************************)
(* Properties of the versions of LikeButton                                *)
(***************************************************************************)

\* C18: given the same clicks (and the same re-renders), the class version
\* and the useState version of LikeButton are always in the same state: for
\* every instance this.state.liked equals the liked value of useState, both
\* false once mounted and until the instance is clicked, and both show the
\* same element (button or span).
C18_ClassEqualsFunctional ==
  \A i \in Buttons :
    /\ clsDom[i] = fnDom[i]
    /\ (clsState[i] = <<>>) <=> (fnMemo[i] = NoHook)
    /\ clsState[i] # <<>> => clsState[i][1].liked = fnMemo[i][1]
    /\ (vMounted /\ vClicks = 0) => (clsState[i][1].liked = FALSE /\ clsDom[i] = "button")

\* After some clicks one instance shows the span in both versions while
\* another still shows the button in both.
C18_Witness ==
  \E i, j \in Buttons :
    /\ clsDom[i] = "span" /\ fnDom[i] = "span"
    /\ clsState[i][1].liked /\ fnMemo[i][1]
    /\ clsDom[j] = "button" /\ fnDom[j] = "button"

\* C19: in the local-variable version the onClick handler runs on every
\* click (each click on instance i assigns liked = true in the closure of its
\* last render and logs "button was clicked", so the log has one line per
\* click), and the display never changes: every instance shows the button and
\* never the span, after any number of clicks and re-renders.
C19_LocalVariableNeverShows ==
  /\ [](vMounted => \A i \in Buttons : locDom[i] = "button")
  /\ [](Len(locConsole) = vClicks
        /\ \A k \in 1 .. Len(locConsole) : locConsole[k] = "button was clicked")
  /\ [][\A i \in Buttons : ClickVariants(i) =>
          /\ locLiked'[i] = <<TRUE>>
          /\ locConsole' = Append(locConsole, "button was clicked")
          /\ locDom' = locDom]_vars

\* The button of an instance has been clicked several times: its variable is
\* true, the clicks are logged, and the button is still shown.
C19_Witness ==
  \E i \in Buttons :
    /\ locLiked[i] = <<TRUE>>
    /\ Len(locConsole) >= 2
    /\ locDom[i] = "button"
    /\ fnDom[i] = "span"

(***************************************************************************)
(* Properties of script.jsx on a page without its container                *)
(***************************************************************************)

\* C20: if document.querySelector("#app") has returned null when script.jsx
\* runs (the div is missing, or not yet parsed because the script tag has no
\* defer), script.jsx goes on to call ReactDOM.render with null: it has no
\* guard, no retry and no fallback. Once the script is over it has made one
\* query and one render call, the call has thrown (the error is ReactDOM's),
\* and no LikeButton is mounted then or at any later time.
C20_NullContainerMountsNothing ==
  domContainer = Null =>
    /\ qsCalls = 1
    /\ renderCalls <= 1
    /\ pc = Len(ScriptStatements) + 1 => (renderCalls = 1 /\ threw)
    /\ ~ScriptDone
    /\ \A i \in Buttons :
         dom[i] = "none" /\ liked[i] = NotRendered /\ hook[StateCell(i)] = NoHook
    /\ clicked = {}

\* The script tag had no defer: the query returned null, the render call
\* threw, and the div#app that the parser has added since stays empty.
C20_Witness ==
  /\ domContainer = Null
  /\ renderCalls = 1
  /\ threw
  /\ parsePos = Len(htmlPage)
  /\ "app" \in document
  /\ \A i \in Buttons : dom[i] = "none"

(***************************************************************************)
(* Properties of the ESLint run                                            *)
(***************************************************************************)

\* C21: when the run is over, every violation of quotes or semi (set to
\* "error") is reported as an error and the run fails (exit code 1); with
\* camelcase set to "warn" a violation of it is reported as a warning and
\* never as an error, and when no rule that is an error is violated the run
\* does not fail (exit code 0); a file that violates no rule, and before
\* camelcase is turned on a file that violates camelcase alone, produces no
\* output.
C21_ErrorFailsWarnDoesNot ==
  lintStage = "done" =>
    /\ \A rule \in {"quotes", "semi"} :
         rule \in lintViolations
           => /\ [ruleId |-> rule, severity |-> "error"] \in Range(lintMessages)
              /\ lintExit = 1
    /\ (lintConfig = "quotes, semi, camelcase" /\ "camelcase" \in lintViolations)
         => /\ [ruleId |-> "camelcase", severity |-> "warn"] \in Range(lintMessages)
            /\ [ruleId |-> "camelcase", severity |-> "error"] \notin Range(lintMessages)
            /\ lintViolations \cap {"no-dupe-keys", "no-unused-vars", "quotes", "semi"} = {}
                 => lintExit = 0
    /\ lintViolations = {} => (lintMessages = <<>> /\ lintExit = 0)
    /\ (lintConfig = "quotes, semi" /\ lintViolations = {"camelcase"})
         => (lintMessages = <<>> /\ lintExit = 0)

\* The refactored script.js (some_text) has been linted with camelcase set to
\* "warn": one warning is printed and the run has not failed.
C21_Witness ==
  /\ lintStage = "done"
  /\ lintConfig = "quotes, semi, camelcase"
  /\ lintViolations = {"camelcase"}
  /\ lintMessages = << [ruleId |-> "camelcase", severity |-> "warn"] >>
  /\ lintExit = 0

(***************************************************************************)
(* Properties of the repeated lazy import                                  *)
(***************************************************************************)

\* C22 as stated: whatever the number n of clicks, once no import is waiting
\* or queued the data of getBigData has been logged exactly n times, and the
\* line lazy-module.js logs when it is evaluated is in the console at most
\* once.
C22_ExactlyOneLogPerClick ==
  /\ Count(console, LoadedLog) <= 1
  /\ (waiters = <<>> /\ microtasks = <<>>)
       => Count(console, getBigData) = lzClicks

\* C22 amended: the "Click me!" button stays in the page and its handler
\* keeps no flag: whatever the number n of clicks, among them clicks made
\* while the import of an earlier click still waits for the chunk, the data
\* of getBigData is logged once for each click whose import is fulfilled and
\* not at all for a click whose import is rejected (the download of the chunk
\* failed; the handler has no catch), hence never more than n times; once the
\* queued promise jobs have run, which comes to happen after every click, it
\* has been logged exactly as often as imports are fulfilled, and every click
\* is fulfilled, rejected or waiting for the download; the line
\* lazy-module.js logs when it is evaluated is in the console at most once.
C22_OneLogPerFulfilledImport ==
  /\ [](Count(console, LoadedLog) <= 1)
  /\ [](Count(console, getBigData) <= Count(imports, "fulfilled"))
  /\ [](Count(imports, "fulfilled") <= lzClicks)
  /\ [](microtasks = <<>>
          => /\ Count(console, getBigData) = Count(imports, "fulfilled")
             /\ Count(imports, "fulfilled") + Count(imports, "rejected")
                  + Len(waiters) = lzClicks)
  /\ [](lzLoaded => "button" \in Range(body))
  /\ [](LazyModule \in moduleCache => Count(console, LoadedLog) = 1)
  /\ \A n \in 1 .. MaxClicks : (lzClicks = n) ~> (microtasks = <<>>)

\* Two clicks were made while one download of the chunk was on its way and
\* that download failed; a third click has requested the chunk again, its
\* import is fulfilled and the data is logged once.
C22_Witness ==
  /\ imports = <<"rejected", "rejected", "fulfilled">>
  /\ microtasks = <<>>
  /\ Count(console, getBigData) = 1
  /\ Count(console, LoadedLog) = 1

====
